---- MODULE Spec2Model ----
(***************************************************************************)
(* A model of app.py, the BigCommerce product exporter: the configuration  *)
(* resolver, the paginated catalog and brand fetchers, the product filter, *)
(* the CSV row builder, the export/download/logout handlers with their     *)
(* session-cached credentials, and the save_creds/load_creds handlers.     *)
(***************************************************************************)
EXTENDS Integers, Sequences, FiniteSets, TLC

VARIABLES
    filter_args,   \* the arguments of the filter_products call under way
    filter_ret,    \* what filter_products returned
    filter_first,  \* what its first run returned, once it has run again
    filter_calls,  \* how many times filter_products has run on this input
    csv_args,      \* the arguments of the build_csv_rows call
    csv_ret,       \* what build_csv_rows returned: the rows written, or a failure
    store,         \* the user_credentials collection: a document per uid
    store_up,      \* whether _firestore_client() returns a client
    cred_req,      \* the last save_creds/load_creds request
    cred_resp,     \* its response, with what _verify_id_token did in it
    store_before,  \* the collection as that request found it
    last_save,     \* per uid, the credentials of the latest save_creds request
                   \* whose token verified to it and whose credentials were complete
    env,           \* the BIGCOMMERCE_* environment variables, by configuration key
    session,       \* the client's session: "bc_credentials" when cached
    pc,            \* where the call under way stands: idle, in the loop of
                   \* fetch_products or of fetch_brand_map, or returned
    call,          \* the call or request under way, with its arguments
    config,        \* the configuration the fetcher under way resolved
    all_products,  \* fetch_products: the records accumulated so far
    page,          \* the number of the next page the fetcher asks for
    handler_products,  \* export/download: the products local
    brand_map,     \* fetch_brand_map: the map built so far
    http,          \* the requests sent upstream in this call, each with its response
    outcome        \* what the call returned or raised

filterVars == <<filter_args, filter_ret, filter_first, filter_calls>>
csvVars == <<csv_args, csv_ret>>
credVars == <<store, store_up, cred_req, cred_resp, store_before, last_save>>

webVars == <<env, session, pc, call, config, all_products, page,
             handler_products, brand_map, http, outcome>>

vars == <<filterVars, csvVars, credVars, webVars>>

\* A component that is not running.
NoArgs == [idle |-> TRUE]
FilterIdle ==
    /\ filter_args = NoArgs
    /\ filter_ret = <<>>
    /\ filter_first = <<>>
    /\ filter_calls = 0
CsvIdle ==
    /\ csv_args = NoArgs
    /\ csv_ret = NoArgs
CredIdle ==
    /\ store = NoArgs
    /\ store_up = FALSE
    /\ cred_req = NoArgs
    /\ cred_resp = NoArgs
    /\ store_before = NoArgs
    /\ last_save = NoArgs
WebIdle ==
    /\ env = NoArgs
    /\ session = NoArgs
    /\ pc = "idle"
    /\ call = NoArgs
    /\ config = NoArgs
    /\ all_products = <<>>
    /\ page = 1
    /\ handler_products = <<>>
    /\ brand_map = NoArgs
    /\ http = <<>>
    /\ outcome = NoArgs

-----------------------------------------------------------------------------
(* Python values as the JSON payload delivers them.  A scalar carries its  *)
(* type and its str() rendering; a list its items; a dict its entries.     *)

PyStr(x) == [t |-> "str", s |-> x]
PyInt(x) == [t |-> "int", s |-> x]
PyTrue == [t |-> "bool", s |-> "True"]
PyFalse == [t |-> "bool", s |-> "False"]
None == [t |-> "null", s |-> "None"]
PyList(xs) == [t |-> "list", items |-> xs]
PyDict(f) == [t |-> "dict", d |-> f]
EmptyDict == PyDict([k \in {} |-> None])

\* bool(v): Python's truth value.
Truthy(v) ==
    CASE v.t = "null" -> FALSE
      [] v.t = "bool" -> v.s = "True"
      [] v.t = "int" -> v.s # "0"
      [] v.t = "str" -> v.s # ""
      [] v.t = "list" -> v.items # <<>>
      [] v.t = "dict" -> DOMAIN v.d # {}

\* v or default
Or(v, default) == IF Truthy(v) THEN v ELSE default

\* mapping.get(key, default)
Get(m, key, default) == IF key \in DOMAIN m.d THEN m.d[key] ELSE default

\* str.lower() on the strings the model uses.
Lower(x) ==
    CASE x = "Disabled" -> "disabled"
      [] x = "DISABLED" -> "disabled"
      [] x = "False" -> "false"
      [] x = "True" -> "true"
      [] x = "None" -> "none"
      [] x = "No" -> "no"
      [] OTHER -> x

unavailable_values == {"disabled", "unavailable", "no", "false", "0"}

-----------------------------------------------------------------------------
(* filter_products *)

\* One iteration of the loop: the record appended, or nothing.
filter_step(prod0, include_unavailable, include_hidden) ==
    LET prod == Or(prod0, EmptyDict)
        availability == Lower(Get(prod, "availability", PyStr("")).s)
        is_visible == Get(prod, "is_visible", PyTrue)
    IN  IF ~include_unavailable /\ availability \in unavailable_values
        THEN <<>>
        ELSE IF ~include_hidden /\ ~Truthy(is_visible)
        THEN <<>>
        ELSE <<prod>>

RECURSIVE filter_loop(_, _, _, _)
filter_loop(products, include_unavailable, include_hidden, filtered) ==
    IF products = <<>>
    THEN filtered
    ELSE filter_loop(Tail(products), include_unavailable, include_hidden,
                     filtered \o filter_step(Head(products), include_unavailable,
                                             include_hidden))

\* A filter that removes from the list it iterates over: the record after a
\* removed one is skipped.
RECURSIVE filter_inplace(_, _, _, _)
filter_inplace(products, i, include_unavailable, include_hidden) ==
    IF i > Len(products)
    THEN [j \in 1..Len(products) |-> Or(products[j], EmptyDict)]
    ELSE IF filter_step(products[i], include_unavailable, include_hidden) = <<>>
    THEN filter_inplace(SubSeq(products, 1, i - 1)
                            \o SubSeq(products, i + 1, Len(products)),
                        i + 1, include_unavailable, include_hidden)
    ELSE filter_inplace(products, i + 1, include_unavailable, include_hidden)

filter_products_removing(products, include_unavailable, include_hidden) ==
    filter_inplace(products, 1, include_unavailable, include_hidden)

\* A filter with the two flags swapped.
filter_products_swapped(products, include_unavailable, include_hidden) ==
    filter_loop(products, include_hidden, include_unavailable, <<>>)

filter_products(products, include_unavailable, include_hidden) ==
    filter_loop(products, include_unavailable, include_hidden, <<>>)

-----------------------------------------------------------------------------
(* The filter on its own: every product sequence up to MaxFilterLen over   *)
(* the sample records, every pair of flags; the filter runs, then runs     *)
(* again on its own result.                                                *)

MaxFilterLen == 3

NormalProduct ==
    PyDict([k \in {"availability", "is_visible"} |->
            IF k = "availability" THEN PyStr("available") ELSE PyTrue])
HiddenProduct ==
    PyDict([k \in {"availability", "is_visible"} |->
            IF k = "availability" THEN PyStr("available") ELSE PyFalse])
DisabledProduct ==
    PyDict([k \in {"availability", "is_visible"} |->
            IF k = "availability" THEN PyStr("disabled") ELSE PyTrue])

FilterSampleIds == 1..10

FilterSample(i) ==
    CASE i = 1 -> None
      [] i = 2 -> EmptyDict
      [] i = 3 -> NormalProduct
      [] i = 4 -> HiddenProduct
      [] i = 5 -> DisabledProduct
      [] i = 6 -> PyDict([k \in {"availability"} |-> PyStr("Disabled")])
      [] i = 7 -> PyDict([k \in {"availability", "is_visible"} |->
                          IF k = "availability" THEN PyFalse ELSE PyTrue])
      [] i = 8 -> PyDict([k \in {"availability", "is_visible"} |->
                          IF k = "availability" THEN PyInt("0") ELSE PyFalse])
      [] i = 9 -> PyDict([k \in {"availability"} |-> None])
      [] i = 10 -> PyDict([k \in {"is_visible"} |-> PyFalse])

FilterInputs ==
    UNION {[1..n -> FilterSampleIds] : n \in 0..MaxFilterLen}

InitFilter ==
    /\ CsvIdle
    /\ CredIdle
    /\ WebIdle
    /\ \E idx \in FilterInputs, u \in BOOLEAN, h \in BOOLEAN :
          filter_args = [products |-> [i \in DOMAIN idx |-> FilterSample(idx[i])],
                         include_unavailable |-> u,
                         include_hidden |-> h]
    /\ filter_ret = <<>>
    /\ filter_first = <<>>
    /\ filter_calls = 0

\* filter_products(products, include_unavailable, include_hidden)
CallFilter ==
    /\ filter_calls = 0
    /\ filter_ret' = filter_products(filter_args.products,
                                     filter_args.include_unavailable,
                                     filter_args.include_hidden)
    /\ filter_calls' = 1
    /\ UNCHANGED <<filter_args, filter_first, csvVars, credVars, webVars>>

\* filter_products applied to its own result, with the same flags
CallFilterAgain ==
    /\ filter_calls = 1
    /\ filter_first' = filter_ret
    /\ filter_ret' = filter_products(filter_ret,
                                     filter_args.include_unavailable,
                                     filter_args.include_hidden)
    /\ filter_calls' = 2
    /\ UNCHANGED <<filter_args, csvVars, credVars, webVars>>

NextFilter ==
    \/ CallFilter
    \/ CallFilterAgain

SpecFilter == InitFilter /\ [][NextFilter]_vars

-----------------------------------------------------------------------------
(* Properties of filter_products *)

\* The record a product stands for: an empty record when it is null.
AsRecord(rec) == IF rec = None THEN EmptyDict ELSE rec

\* Whether a record is dropped: its availability, as a lowercase string, is
\* one of the five literals and unavailable products are not included, or its
\* visibility (true when absent) is false and hidden products are not included.
Dropped(rec, includeUnavailable, includeHidden) ==
    LET r == AsRecord(rec).d
        availability ==
            IF "availability" \in DOMAIN r THEN Lower(r["availability"].s) ELSE ""
        visibility == IF "is_visible" \in DOMAIN r THEN r["is_visible"] ELSE PyTrue
    IN  \/ ~includeUnavailable
           /\ availability \in {"disabled", "unavailable", "no", "false", "0"}
        \/ ~includeHidden /\ visibility = PyFalse

ThreeRecords == <<HiddenProduct, DisabledProduct, NormalProduct>>

\* C5: filter_products returns exactly the records that are not dropped, in
\* input order, a null record surviving as an empty record; of a hidden, a
\* disabled and a normal record with both flags false only the normal survives.
C5_FilterKeepsUndropped ==
    filter_calls = 1 =>
        LET P == filter_args.products
            u == filter_args.include_unavailable
            h == filter_args.include_hidden
            keep == {i \in 1..Len(P) : ~Dropped(P[i], u, h)}
        IN  /\ Len(filter_ret) = Cardinality(keep)
            /\ \A i \in keep :
                  filter_ret[Cardinality({j \in keep : j <= i})] = AsRecord(P[i])
            /\ (P = ThreeRecords /\ ~u /\ ~h) => filter_ret = <<NormalProduct>>

C5_Witness ==
    /\ filter_calls = 1
    /\ filter_args.products = ThreeRecords
    /\ ~filter_args.include_unavailable
    /\ ~filter_args.include_hidden
    /\ Len(filter_ret) = 1

\* C10: filtering an already filtered sequence with the same flags returns it
\* unchanged.
C10_FilterIdempotent ==
    filter_calls = 2 => filter_ret = filter_first

C10_Witness ==
    /\ filter_calls = 2
    /\ \E i \in 1..Len(filter_args.products) : filter_args.products[i] = None
    /\ filter_ret # <<>>
    /\ Len(filter_ret) < Len(filter_args.products)

-----------------------------------------------------------------------------
(* build_csv_rows *)

FIELD_OPTIONS ==
    [
     id |-> "Product ID", name |-> "Name",
     sku |-> "SKU", price |-> "Price",
     sale_price |-> "Sale Price", retail_price |-> "Retail Price",
     map_price |-> "MAP Price", cost_price |-> "Cost Price",
     msrp |-> "MSRP", tax_class_id |-> "Tax Class ID",
     inventory_level |-> "Inventory", type |-> "Type",
     weight |-> "Weight", width |-> "Width",
     height |-> "Height", depth |-> "Depth",
     brand_id |-> "Brand ID", brand_name |-> "Brand Name",
     upc |-> "UPC", mpn |-> "MPN",
     gtin |-> "GTIN", bin_picking_number |-> "Bin Picking Number",
     categories |-> "Categories", category_ids |-> "Category IDs",
     primary_image_url |-> "Primary Image URL", thumbnail_url |-> "Thumbnail URL",
     image_urls |-> "Image URLs", is_visible |-> "Is Visible",
     is_featured |-> "Is Featured", is_free_shipping |-> "Is Free Shipping",
     availability |-> "Availability", availability_description |-> "Availability Description",
     condition |-> "Condition", description |-> "Description",
     warranty |-> "Warranty", search_keywords |-> "Search Keywords",
     custom_fields |-> "Custom Fields", date_created |-> "Date Created",
     date_modified |-> "Date Modified", date_last_imported |-> "Date Last Imported",
     total_sold |-> "Total Sold", reviews_rating_sum |-> "Reviews Rating Sum",
     reviews_count |-> "Reviews Count", variant_skus |-> "Variant SKUs",
     variant_prices |-> "Variant Prices", variants |-> "Variants (JSON)",
     custom_url |-> "Custom URL"
    ]

\* FIELD_OPTIONS.get(field, field)
Label(field) ==
    IF field \in DOMAIN FIELD_OPTIONS THEN FIELD_OPTIONS[field] ELSE field

\* str.startswith
startswith(x, prefix) ==
    Len(x) >= Len(prefix) /\ SubSeq(x, 1, Len(prefix)) = prefix

\* str.rstrip(c)
RECURSIVE rstrip(_, _)
rstrip(x, c) ==
    IF Len(x) > 0 /\ SubSeq(x, Len(x), Len(x)) = c
    THEN rstrip(SubSeq(x, 1, Len(x) - 1), c)
    ELSE x

\* sep.join(xs), xs a sequence of strings
RECURSIVE join(_, _)
join(sep, xs) ==
    IF xs = <<>> THEN ""
    ELSE IF Len(xs) = 1 THEN xs[1]
    ELSE xs[1] \o sep \o join(sep, Tail(xs))

\* An exception raised while a value is computed.
Raise(e) == [t |-> "raise", s |-> e]

\* The order in which a dict lists its keys (the order of the JSON payload).
DictKeyOrder ==
    <<"id", "name", "sku", "price", "brand_id", "upc", "categories",
      "primary_image", "images", "custom_fields", "variants", "custom_url",
      "url_standard", "url_thumbnail", "url", "path", "value",
      "availability", "is_visible">>

\* repr(v)
RECURSIVE repr(_)
repr(v) ==
    CASE v.t = "str" -> "'" \o v.s \o "'"
      [] v.t = "list" ->
            "[" \o join(", ", [i \in 1..Len(v.items) |-> repr(v.items[i])]) \o "]"
      [] v.t = "dict" ->
            LET keys == SelectSeq(DictKeyOrder, LAMBDA k : k \in DOMAIN v.d)
            IN  "{" \o join(", ", [i \in 1..Len(keys) |->
                                     "'" \o keys[i] \o "': " \o repr(v.d[keys[i]])])
                \o "}"
      [] OTHER -> v.s

\* str(v)
str(v) == IF v.t = "str" THEN v.s ELSE repr(v)

\* m.get(key, default), which a value that is no dict does not have
getV(m, key, default) ==
    IF m.t = "dict" THEN Get(m, key, default) ELSE Raise("AttributeError")

\* sep.join(vs) over Python values: every item must be a str
joinV(sep, vs) ==
    IF \E i \in 1..Len(vs) : vs[i].t = "raise"
    THEN vs[CHOOSE i \in 1..Len(vs) :
                /\ vs[i].t = "raise"
                /\ \A j \in 1..(i - 1) : vs[j].t # "raise"]
    ELSE IF \E i \in 1..Len(vs) : vs[i].t # "str"
    THEN Raise("TypeError")
    ELSE PyStr(join(sep, [i \in 1..Len(vs) |-> vs[i].s]))

\* str(v) of a value that may have failed to compute
strV(v) == IF v.t = "raise" THEN v ELSE PyStr(str(v))

\* apply_domain without the rstrip of the domain.
apply_domain_keeping_slash(domain, url_value) ==
    IF domain = "" THEN url_value
    ELSE IF ~Truthy(url_value) THEN PyStr("")
    ELSE IF url_value.t # "str" THEN Raise("AttributeError")
    ELSE IF startswith(url_value.s, "http://") \/ startswith(url_value.s, "https://")
    THEN url_value
    ELSE PyStr(domain \o (IF startswith(url_value.s, "/")
                          THEN url_value.s ELSE "/" \o url_value.s))

apply_domain(domain, url_value) ==
    IF domain = "" THEN url_value
    ELSE IF ~Truthy(url_value) THEN PyStr("")
    ELSE IF url_value.t # "str" THEN Raise("AttributeError")
    ELSE IF startswith(url_value.s, "http://") \/ startswith(url_value.s, "https://")
    THEN url_value
    ELSE LET domain_clean == rstrip(domain, "/")
             path == IF startswith(url_value.s, "/")
                     THEN url_value.s ELSE "/" \o url_value.s
         IN  PyStr(domain_clean \o path)

\* The value of one field of one product (the if/elif chain).
field_value(product, field, brand_map_arg, custom_domain) ==
    LET primary_image == Or(Get(product, "primary_image", None), EmptyDict)
    IN  CASE field = "primary_image_url" ->
                getV(primary_image, "url_standard", PyStr(""))
          [] field = "thumbnail_url" ->
                getV(primary_image, "url_thumbnail", PyStr(""))
          [] field = "image_urls" ->
                LET images == Or(Get(product, "images", None), PyList(<<>>))
                    kept == SelectSeq(images.items, LAMBDA img : img.t # "null")
                IN  joinV(", ", [i \in 1..Len(kept) |->
                                   getV(Or(kept[i], EmptyDict), "url_standard",
                                        PyStr(""))])
          [] field = "brand_name" ->
                LET brand_id == Get(product, "brand_id", None)
                IN  IF brand_id \in DOMAIN brand_map_arg
                    THEN brand_map_arg[brand_id] ELSE PyStr("")
          [] field = "category_ids" ->
                LET categories == Or(Get(product, "categories", None), PyList(<<>>))
                IN  PyStr(join(", ", [i \in 1..Len(categories.items) |->
                                        str(categories.items[i])]))
          [] field = "custom_fields" ->
                LET custom_fields ==
                        Or(Get(product, "custom_fields", None), PyList(<<>>))
                    part(cf) ==
                        LET name == getV(cf, "name", PyStr(""))
                            cf_value == getV(cf, "value", PyStr(""))
                        IN  IF name.t = "raise" THEN name
                            ELSE IF Truthy(name)
                            THEN PyStr(str(name) \o ": " \o str(cf_value))
                            ELSE cf_value
                IN  joinV("; ", [i \in 1..Len(custom_fields.items) |->
                                   part(custom_fields.items[i])])
          [] field = "variant_skus" ->
                LET variants == Or(Get(product, "variants", None), PyList(<<>>))
                    kept == SelectSeq(variants.items, Truthy)
                IN  joinV(", ", [i \in 1..Len(kept) |->
                                   getV(kept[i], "sku", PyStr(""))])
          [] field = "variant_prices" ->
                LET variants == Or(Get(product, "variants", None), PyList(<<>>))
                    kept == SelectSeq(variants.items, Truthy)
                IN  joinV(", ", [i \in 1..Len(kept) |->
                                   strV(getV(kept[i], "price", PyStr("")))])
          [] field = "variants" ->
                LET variants == Or(Get(product, "variants", None), PyList(<<>>))
                IN  PyStr(str(variants))
          [] field = "custom_url" ->
                LET custom == Or(Get(product, "custom_url", None), EmptyDict)
                    raw_url ==
                        IF custom.t = "dict"
                        THEN Or(Or(Get(custom, "url", PyStr("")),
                                   Get(custom, "path", PyStr(""))),
                                PyStr(""))
                        ELSE PyStr(str(custom))
                IN  apply_domain(custom_domain, raw_url)
          [] OTHER -> Get(product, field, PyStr(""))

\* The flattening of a list or dict value that ends an iteration of the field loop.
flatten(value, field) ==
    IF value.t = "list"
    THEN PyStr(join(", ", [i \in 1..Len(value.items) |-> str(value.items[i])]))
    ELSE IF value.t = "dict"
    THEN IF field = "custom_url" THEN Get(value, "url", PyStr(""))
         ELSE PyStr(str(value))
    ELSE value

\* What csv.writer writes for a value: nothing for None, str(value) otherwise.
writer_cell(value) == IF value.t = "null" THEN "" ELSE str(value)

\* The row of one product, as Python values.
product_row(product0, fields, brand_map_arg, custom_domain) ==
    LET product == Or(product0, EmptyDict)
    IN  [j \in 1..Len(fields) |->
            LET value == field_value(product, fields[j], brand_map_arg, custom_domain)
            IN  IF value.t = "raise" THEN value ELSE flatten(value, fields[j])]

\* The fields without their repetitions, in first-occurrence order.
RECURSIVE unique(_)
unique(xs) ==
    IF xs = <<>> THEN <<>>
    ELSE LET rest == unique(SubSeq(xs, 1, Len(xs) - 1))
             last == xs[Len(xs)]
         IN  IF \E i \in 1..Len(rest) : rest[i] = last THEN rest
             ELSE Append(rest, last)

\* The CSV as the rows handed to the writer, each a sequence of cells: the text
\* returned is the writer's rendering of these rows.
csv_rows(products, fields, brand_map_arg, custom_domain) ==
    LET header == [j \in 1..Len(fields) |-> Label(fields[j])]
        rows == [i \in 1..Len(products) |->
                    product_row(products[i], fields, brand_map_arg, custom_domain)]
        failed == \E i \in 1..Len(rows) : \E j \in 1..Len(fields) :
                      rows[i][j].t = "raise"
    IN  IF failed
        THEN [ok |-> FALSE, rows |-> <<>>]
        ELSE [ok |-> TRUE,
              rows |-> <<header>> \o
                       [i \in 1..Len(rows) |->
                           [j \in 1..Len(fields) |-> writer_cell(rows[i][j])]]]

\* A builder that writes each field once.
build_csv_rows_unique(products, fields, brand_map_arg, custom_domain) ==
    csv_rows(products, unique(fields), brand_map_arg, custom_domain)

build_csv_rows(products, fields, brand_map_arg, custom_domain) ==
    csv_rows(products, fields, brand_map_arg, custom_domain)

-----------------------------------------------------------------------------
(* The row builder on its own: product sequences up to MaxProducts over    *)
(* the sample records, every single registered or unregistered field and   *)
(* every field list up to MaxFields over FieldSample, with and without a   *)
(* brand map entry and a custom domain.                                    *)

MaxProducts == 2
MaxFields == 3

FullProduct ==
    PyDict([id |-> PyInt("1"),
            name |-> PyStr("Widget, large"),
            sku |-> PyStr("W"),
            price |-> PyInt("10"),
            brand_id |-> PyInt("7"),
            categories |-> PyList(<<PyInt("3"), PyInt("5")>>),
            primary_image |->
                PyDict([url_standard |-> PyStr("https://cdn.example.com/s.jpg"),
                        url_thumbnail |-> PyStr("https://cdn.example.com/t.jpg")]),
            images |->
                PyList(<<PyDict([url_standard |-> PyStr("a.jpg")]), None,
                         PyDict([url_standard |-> PyStr("b.jpg")])>>),
            custom_fields |->
                PyList(<<PyDict([name |-> PyStr("Color"), value |-> PyStr("Red")]),
                         PyDict([name |-> PyStr(""), value |-> PyStr("Loose")])>>),
            variants |->
                PyList(<<PyDict([sku |-> PyStr("W-1"), price |-> PyInt("9")]), None,
                         PyDict([sku |-> PyStr("W-2"), price |-> PyInt("10")])>>),
            custom_url |-> PyDict([url |-> PyStr("/widgets/1")]),
            is_visible |-> PyTrue,
            availability |-> PyStr("available")])

\* Every nested attribute present and null.
NullsProduct ==
    PyDict([name |-> None, brand_id |-> None, categories |-> None,
            primary_image |-> None, images |-> None, custom_fields |-> None,
            variants |-> None, custom_url |-> None])

\* Nested attributes present, their own entries missing.
SparseProduct ==
    PyDict([id |-> PyInt("2"),
            brand_id |-> PyInt("8"),
            categories |-> PyList(<<>>),
            primary_image |-> PyDict([url_thumbnail |-> PyStr("t2.jpg")]),
            images |-> PyList(<<EmptyDict>>),
            custom_fields |-> PyList(<<PyDict([value |-> PyStr("Loose")])>>),
            variants |-> PyList(<<PyDict([price |-> PyInt("5")])>>),
            custom_url |-> PyDict([path |-> PyStr("p/2")])])

CsvSampleIds == 1..5

CsvSample(i) ==
    CASE i = 1 -> None
      [] i = 2 -> EmptyDict
      [] i = 3 -> FullProduct
      [] i = 4 -> NullsProduct
      [] i = 5 -> SparseProduct

AcmeBrands == [k \in {PyInt("7")} |-> PyStr("Acme")]
NoBrands == [k \in {} |-> PyStr("")]

BrandMapSample(i) == IF i = 1 THEN AcmeBrands ELSE NoBrands

FieldSample == {"name", "variants", "custom_url", "unlisted"}

CsvFieldLists ==
    {<<f>> : f \in DOMAIN FIELD_OPTIONS \cup {"unlisted"}}
        \cup UNION {[1..n -> FieldSample] : n \in 0..MaxFields}

CsvProductLists ==
    UNION {[1..n -> CsvSampleIds] : n \in 0..MaxProducts}

InitCsv ==
    /\ FilterIdle
    /\ CredIdle
    /\ WebIdle
    /\ \E idx \in CsvProductLists, fields \in CsvFieldLists, b \in 1..2,
          domain \in {"", "https://shop.example.com/"} :
          csv_args = [products |-> [i \in DOMAIN idx |-> CsvSample(idx[i])],
                      fields |-> fields,
                      brand_map |-> BrandMapSample(b),
                      custom_domain |-> domain]
    /\ csv_ret = NoArgs

\* build_csv_rows(products, fields, brand_map, custom_domain)
BuildCsv ==
    /\ csv_ret = NoArgs
    /\ csv_ret' = build_csv_rows(csv_args.products, csv_args.fields,
                                 csv_args.brand_map, csv_args.custom_domain)
    /\ UNCHANGED <<csv_args, filterVars, credVars, webVars>>

NextCsv == BuildCsv

SpecCsv == InitCsv /\ [][NextCsv]_vars

(* The custom_url column on its own: one product whose custom_url is       *)
(* absent, null, a plain string or a mapping with url, path or both, over  *)
(* relative and absolute values, against domains with and without trailing *)
(* slashes.                                                                *)

UrlValues ==
    {"", "/widgets/1", "widgets/1", "https://cdn.example.com/x",
     "http://cdn.example.com/x", "HTTPS://cdn.example.com/x", "httpx"}

UrlDomains ==
    {"", "https://shop.example.com/", "https://shop.example.com",
     "https://shop.example.com//", "/", "shop.example.com"}

UrlKinds == {"absent", "null", "plain", "url", "path", "both"}

UrlProduct(kind, u1, u2) ==
    CASE kind = "absent" -> PyDict([id |-> PyInt("1")])
      [] kind = "null" -> PyDict([custom_url |-> None])
      [] kind = "plain" -> PyDict([custom_url |-> PyStr(u1)])
      [] kind = "url" -> PyDict([custom_url |-> PyDict([url |-> PyStr(u1)])])
      [] kind = "path" -> PyDict([custom_url |-> PyDict([path |-> PyStr(u1)])])
      [] kind = "both" ->
            PyDict([custom_url |-> PyDict([url |-> PyStr(u1), path |-> PyStr(u2)])])

InitUrl ==
    /\ FilterIdle
    /\ CredIdle
    /\ WebIdle
    /\ \E kind \in UrlKinds, u1 \in UrlValues, u2 \in UrlValues,
          domain \in UrlDomains :
          csv_args = [products |-> <<UrlProduct(kind, u1, u2)>>,
                      fields |-> <<"custom_url">>,
                      brand_map |-> NoBrands,
                      custom_domain |-> domain]
    /\ csv_ret = NoArgs

SpecUrl == InitUrl /\ [][NextCsv]_vars

-----------------------------------------------------------------------------
(* Properties of build_csv_rows *)

\* The record attribute a field reads.
AttributeBehind(field) ==
    CASE field = "primary_image_url" -> "primary_image"
      [] field = "thumbnail_url" -> "primary_image"
      [] field = "image_urls" -> "images"
      [] field = "brand_name" -> "brand_id"
      [] field = "category_ids" -> "categories"
      [] field = "variant_skus" -> "variants"
      [] field = "variant_prices" -> "variants"
      [] OTHER -> field

Lacks(product, field) == AttributeBehind(field) \notin DOMAIN AsRecord(product).d

\* C6: whenever a record lacks the attribute a field reads, the build completes
\* and the cell of that field in the record's row is the empty string.
C6_MissingAttributeGivesEmptyCell ==
    csv_ret # NoArgs =>
        /\ csv_ret.ok
        /\ \A i \in 1..Len(csv_args.products) : \A j \in 1..Len(csv_args.fields) :
              Lacks(csv_args.products[i], csv_args.fields[j])
                  => csv_ret.rows[i + 1][j] = ""

\* The cell of one field of one product.
CellOf(product, field) ==
    writer_cell(product_row(product, <<field>>, csv_args.brand_map,
                            csv_args.custom_domain)[1])

\* C7: the CSV is one header row and one row per product in input order; the
\* header has one cell per field, the field's registered label or else its raw
\* key; every product row has one cell per field, in field-list order.
C7_HeaderAndRowsFollowFieldList ==
    csv_ret # NoArgs =>
        LET F == csv_args.fields
            P == csv_args.products
            R == csv_ret.rows
        IN  /\ csv_ret.ok
            /\ Len(R) = 1 + Len(P)
            /\ Len(R[1]) = Len(F)
            /\ \A j \in 1..Len(F) :
                  R[1][j] = IF F[j] \in DOMAIN FIELD_OPTIONS
                            THEN FIELD_OPTIONS[F[j]] ELSE F[j]
            /\ \A i \in 1..Len(P) :
                  /\ Len(R[i + 1]) = Len(F)
                  /\ \A j \in 1..Len(F) : R[i + 1][j] = CellOf(P[i], F[j])

C7_Witness ==
    /\ csv_ret # NoArgs
    /\ csv_args.fields = <<"name", "unlisted", "name">>
    /\ csv_args.products = <<FullProduct, EmptyDict>>
    /\ csv_ret.rows = << <<"Name", "unlisted", "Name">>,
                         <<"Widget, large", "", "Widget, large">>,
                         <<"", "", "">> >>

\* The value extracted from the custom-url attribute: the mapping's url, else
\* its path, else empty; a plain value as it is.
ExtractedUrl(product) ==
    LET r == AsRecord(product).d
        nonEmpty(m, k) == k \in DOMAIN m /\ m[k].s # ""
    IN  IF "custom_url" \notin DOMAIN r THEN ""
        ELSE LET c == r["custom_url"]
             IN  CASE c.t = "dict" ->
                        IF nonEmpty(c.d, "url") THEN c.d["url"].s
                        ELSE IF nonEmpty(c.d, "path") THEN c.d["path"].s
                        ELSE ""
                   [] c.t = "str" -> c.s
                   [] OTHER -> ""

\* The domain without its trailing slashes.
StrippedDomain(domain) ==
    LET k == CHOOSE n \in 0..Len(domain) :
                /\ \A i \in (n + 1)..Len(domain) : SubSeq(domain, i, i) = "/"
                /\ n = 0 \/ SubSeq(domain, n, n) # "/"
    IN  SubSeq(domain, 1, k)

IsAbsoluteUrl(v) ==
    \/ Len(v) >= 7 /\ SubSeq(v, 1, 7) = "http://"
    \/ Len(v) >= 8 /\ SubSeq(v, 1, 8) = "https://"

\* C8: with a custom domain an absolute custom URL is output unchanged and any
\* other non-empty one as the slash-stripped domain followed by the value with
\* a leading slash; with no custom domain the extracted value is output
\* unchanged.
C8_CustomUrlDomainPrefix ==
    csv_ret # NoArgs =>
        LET v == ExtractedUrl(csv_args.products[1])
            domain == csv_args.custom_domain
            cell == csv_ret.rows[2][1]
        IN  /\ csv_ret.ok
            /\ domain = "" => cell = v
            /\ (domain # "" /\ IsAbsoluteUrl(v)) => cell = v
            /\ (domain # "" /\ v # "" /\ ~IsAbsoluteUrl(v)) =>
                  cell = StrippedDomain(domain)
                           \o (IF SubSeq(v, 1, 1) = "/" THEN v ELSE "/" \o v)
            /\ (v = "/widgets/1" /\ domain = "https://shop.example.com/") =>
                  cell = "https://shop.example.com/widgets/1"
            /\ v = "https://cdn.example.com/x" => cell = v

C8_Witness ==
    /\ csv_ret # NoArgs
    /\ csv_args.custom_domain = "https://shop.example.com/"
    /\ ExtractedUrl(csv_args.products[1]) = "/widgets/1"
    /\ csv_ret.rows[2][1] = "https://shop.example.com/widgets/1"

-----------------------------------------------------------------------------
(* save_creds and load_creds *)

Keys == {"store_hash", "client_id", "access_token"}

Uids == {"u1", "u2"}

\* The ID tokens requests carry: none, one that does not verify, one per user.
IdTokens == {"", "bad", "token-u1", "token-u2"}

\* _verify_id_token: the uid of the token, or the exception raised.
verify_id_token(id_token) ==
    CASE id_token = "token-u1" -> [raised |-> FALSE, uid |-> "u1"]
      [] id_token = "token-u2" -> [raised |-> FALSE, uid |-> "u2"]
      [] OTHER -> [raised |-> TRUE, uid |-> ""]

NoCreds == [k \in Keys |-> ""]
NoDoc == [exists |-> FALSE, data |-> NoCreds]

\* jsonify(...) with its status code; uid is what _verify_id_token returned in
\* the request, "" when it was not called or raised; raised is whether it raised.
Response(code, status, error, creds, uid, raised) ==
    [code |-> code, status |-> status, error |-> error, creds |-> creds,
     uid |-> uid, raised |-> raised]

\* The credentials of a save_creds payload.
PayloadCreds(payload) == [k \in Keys |-> payload[k]]

\* save_creds that stores whatever credentials the payload carries.
save_creds_unvalidated(payload, db, up) ==
    IF payload.id_token = ""
    THEN [resp |-> Response(400, "", "Missing token or credentials", NoCreds,
                            "", FALSE),
          db |-> db]
    ELSE IF ~up
    THEN [resp |-> Response(503, "", "Firestore not available", NoCreds, "", FALSE),
          db |-> db]
    ELSE LET v == verify_id_token(payload.id_token)
         IN  IF v.raised
             THEN [resp |-> Response(401, "", "Invalid ID token", NoCreds, "", TRUE),
                   db |-> db]
             ELSE [resp |-> Response(200, "saved", "", NoCreds, v.uid, FALSE),
                   db |-> [db EXCEPT ![v.uid] =
                              [exists |-> TRUE, data |-> PayloadCreds(payload)]]]

\* The save_creds handler: its response and the collection it leaves.
save_creds(payload, db, up) ==
    IF payload.id_token = ""
       \/ ~(payload.store_hash # "" /\ payload.client_id # ""
            /\ payload.access_token # "")
    THEN [resp |-> Response(400, "", "Missing token or credentials", NoCreds,
                            "", FALSE),
          db |-> db]
    ELSE IF ~up
    THEN [resp |-> Response(503, "", "Firestore not available", NoCreds, "", FALSE),
          db |-> db]
    ELSE LET v == verify_id_token(payload.id_token)
         IN  IF v.raised
             THEN [resp |-> Response(401, "", "Invalid ID token", NoCreds, "", TRUE),
                   db |-> db]
             ELSE [resp |-> Response(200, "saved", "", NoCreds, v.uid, FALSE),
                   db |-> [db EXCEPT ![v.uid] =
                              [exists |-> TRUE, data |-> PayloadCreds(payload)]]]

\* load_creds that reads the first user's document whatever the token's uid.
load_creds_any_user(payload, db, up) ==
    IF payload.id_token = ""
    THEN Response(400, "", "Missing token", NoCreds, "", FALSE)
    ELSE IF ~up
    THEN Response(503, "", "Firestore not available", NoCreds, "", FALSE)
    ELSE LET v == verify_id_token(payload.id_token)
         IN  IF v.raised
             THEN Response(401, "", "Invalid ID token", NoCreds, "", TRUE)
             ELSE IF ~db["u1"].exists
             THEN Response(200, "not_found", "", NoCreds, v.uid, FALSE)
             ELSE Response(200, "found", "", db["u1"].data, v.uid, FALSE)

\* The load_creds handler: its response.
load_creds(payload, db, up) ==
    IF payload.id_token = ""
    THEN Response(400, "", "Missing token", NoCreds, "", FALSE)
    ELSE IF ~up
    THEN Response(503, "", "Firestore not available", NoCreds, "", FALSE)
    ELSE LET v == verify_id_token(payload.id_token)
         IN  IF v.raised
             THEN Response(401, "", "Invalid ID token", NoCreds, "", TRUE)
             ELSE IF ~db[v.uid].exists
             THEN Response(200, "not_found", "", NoCreds, v.uid, FALSE)
             ELSE Response(200, "found", "", db[v.uid].data, v.uid, FALSE)

CredValues == {"", "a", "b"}

InitCreds ==
    /\ FilterIdle
    /\ CsvIdle
    /\ WebIdle
    /\ store = [u \in Uids |-> NoDoc]
    /\ store_up \in BOOLEAN
    /\ cred_req = NoArgs
    /\ cred_resp = NoArgs
    /\ store_before = [u \in Uids |-> NoDoc]
    /\ last_save = [u \in Uids |-> NoDoc]

\* POST /api/save_creds
SaveCreds ==
    \E id_token \in IdTokens, store_hash \in CredValues, client_id \in CredValues,
       access_token \in CredValues :
        LET payload == [id_token |-> id_token, store_hash |-> store_hash,
                        client_id |-> client_id, access_token |-> access_token]
            r == save_creds(payload, store, store_up)
        IN  /\ cred_req' = [op |-> "save_creds", payload |-> payload, up |-> store_up]
            /\ cred_resp' = r.resp
            /\ store' = r.db
            /\ store_before' = store
            /\ last_save' =
                  IF r.resp.uid # "" /\ store_hash # "" /\ client_id # ""
                     /\ access_token # ""
                  THEN [last_save EXCEPT ![r.resp.uid] =
                           [exists |-> TRUE, data |-> PayloadCreds(payload)]]
                  ELSE last_save
            /\ UNCHANGED <<store_up, filterVars, csvVars, webVars>>

\* POST /api/load_creds
LoadCreds ==
    \E id_token \in IdTokens :
        LET payload == [id_token |-> id_token, store_hash |-> "",
                        client_id |-> "", access_token |-> ""]
        IN  /\ cred_req' = [op |-> "load_creds", payload |-> payload, up |-> store_up]
            /\ cred_resp' = load_creds(payload, store, store_up)
            /\ store_before' = store
            /\ UNCHANGED <<store, store_up, last_save, filterVars, csvVars, webVars>>

\* firestore.client() starts or stops raising.
StoreAvailability ==
    /\ store_up' = ~store_up
    /\ UNCHANGED <<store, cred_req, cred_resp, store_before, last_save,
                   filterVars, csvVars, webVars>>

NextCreds ==
    \/ SaveCreds
    \/ LoadCreds
    \/ StoreAvailability

SpecCreds == InitCreds /\ [][NextCreds]_vars

-----------------------------------------------------------------------------
(* Properties of save_creds and load_creds *)

\* A request that carries a token and, for save_creds, three credentials.
CompleteRequest ==
    /\ cred_req.payload.id_token # ""
    /\ cred_req.op = "save_creds" =>
          \A k \in Keys : cred_req.payload[k] # ""

\* A document is written only by a save_creds request whose token verified to
\* its uid and whose three credentials are non-empty, and holds them.
WrittenOnlyByVerifiedSave ==
    \A u \in Uids :
        store[u] # store_before[u] =>
            /\ cred_req.op = "save_creds"
            /\ cred_resp.uid = u
            /\ \A k \in Keys : cred_req.payload[k] # ""
            /\ store[u] = [exists |-> TRUE, data |-> PayloadCreds(cred_req.payload)]

\* The stored document is that of the latest such save, and a load_creds
\* request whose token verified to u returns it, or not_found when there is none.
LoadReturnsLastSave ==
    /\ store = last_save
    /\ \A u \in Uids :
          (cred_req.op = "load_creds" /\ cred_resp.uid = u) =>
              /\ cred_resp.code = 200
              /\ IF last_save[u].exists
                 THEN cred_resp.status = "found"
                      /\ cred_resp.creds = last_save[u].data
                 ELSE cred_resp.status = "not_found"

\* C9 as stated: documents are written only by verified, complete saves; a
\* verified load returns the latest one or not_found; a request whose token
\* fails verification is rejected as unauthorized and a request made while the
\* store is unreachable as service-unavailable, neither changing a document.
C9_AsStated ==
    cred_req # NoArgs =>
        /\ WrittenOnlyByVerifiedSave
        /\ LoadReturnsLastSave
        /\ cred_resp.raised => (cred_resp.code = 401 /\ store = store_before)
        /\ ~cred_req.up => (cred_resp.code = 503 /\ store = store_before)

\* C9, amended: as stated, except that the two rejections are those of complete
\* requests: an incomplete request is rejected as a bad request before the
\* store or the token is looked at; a complete request made while the store is
\* unreachable is rejected as service-unavailable; a complete request made
\* while it is reachable whose token does not verify is rejected as
\* unauthorized; none of them changes a document.
C9_RejectionsInOrder ==
    cred_req # NoArgs =>
        /\ WrittenOnlyByVerifiedSave
        /\ LoadReturnsLastSave
        /\ ~CompleteRequest => (cred_resp.code = 400 /\ store = store_before)
        /\ (CompleteRequest /\ ~cred_req.up) =>
              (cred_resp.code = 503 /\ store = store_before)
        /\ (CompleteRequest /\ cred_req.up
               /\ verify_id_token(cred_req.payload.id_token).raised) =>
              (cred_resp.code = 401 /\ cred_resp.raised /\ store = store_before)

C9_Witness ==
    /\ cred_req # NoArgs
    /\ cred_req.op = "load_creds"
    /\ cred_resp.uid = "u1"
    /\ cred_resp.status = "found"
    /\ cred_resp.creds = [k \in Keys |-> IF k = "client_id" THEN "b" ELSE "a"]
    /\ store["u2"].exists
    /\ store["u2"].data # store["u1"].data

-----------------------------------------------------------------------------
(* The configuration resolver and the two paginated fetchers.  A fetcher   *)
(* resolves its configuration, then runs its loop one upstream request at  *)
(* a time; http records every request sent with the response it got.       *)

\* The order in which get_bigcommerce_config lists its keys.
KeyOrder == <<"store_hash", "client_id", "access_token">>

\* A credentials dict with no entry: {} (None behaves the same where it is read).
NoOverride == [k \in {} |-> ""]

\* An override that replaces an environment value even when it is empty.
get_bigcommerce_config_replacing(overrides) ==
    [k \in Keys |-> IF k \in DOMAIN overrides THEN overrides[k] ELSE env[k]]

get_bigcommerce_config(overrides) ==
    [k \in Keys |->
        IF k \in DOMAIN overrides /\ overrides[k] # ""
        THEN overrides[k]
        ELSE env[k]]

\* missing = [key for key, value in config.items() if not value]
missing_keys(cfg) == SelectSeq(KeyOrder, LAMBDA k : cfg[k] = "")

missing_message(missing) ==
    "Missing BigCommerce configuration: " \o join(", ", missing) \o ". "
        \o "Set BIGCOMMERCE_STORE_HASH, BIGCOMMERCE_CLIENT_ID, and BIGCOMMERCE_ACCESS_TOKEN."

products_error_message(response) ==
    "BigCommerce API error (" \o ToString(response.status) \o "): " \o response.text

brands_error_message(response) ==
    "BigCommerce brand API error (" \o ToString(response.status) \o "): "
        \o response.text

\* ",".join(include_params)
include_params(include_variants) ==
    IF include_variants
    THEN "images,primary_image,custom_fields,variants,options,modifiers"
    ELSE "images,primary_image,custom_fields"

\* What requests.get sends: the store in the URL, the credentials in the
\* headers, the paging parameters; and what came back.
Request(api, cfg, limit, pg, include, response) ==
    [api |-> api,
     store_hash |-> cfg["store_hash"],
     client_id |-> cfg["client_id"],
     access_token |-> cfg["access_token"],
     limit |-> limit,
     page |-> pg,
     include |-> include,
     status |-> response.status,
     text |-> response.text,
     count |-> Len(response.data)]

\* while len(all_products) < max_items
loop_condition(acc, max_items) == Len(acc) < max_items

\* all_products[:max_items], max_items not negative
Slice(acc, max_items) ==
    SubSeq(acc, 1, IF Len(acc) < max_items THEN Len(acc) ELSE max_items)

\* A loop that goes on after a short page and stops at an empty one only.
fetch_products_iteration_until_empty(acc, pg, max_items, page_size, response) ==
    IF response.status # 200
    THEN [next |-> "raise", all_products |-> acc, page |-> pg]
    ELSE IF response.data = <<>>
    THEN [next |-> "return", all_products |-> acc, page |-> pg]
    ELSE IF loop_condition(acc \o response.data, max_items)
    THEN [next |-> "loop", all_products |-> acc \o response.data, page |-> pg + 1]
    ELSE [next |-> "return", all_products |-> acc \o response.data, page |-> pg + 1]

\* A loop that leaves with what it has when the upstream answers an error.
fetch_products_iteration_lenient(acc, pg, max_items, page_size, response) ==
    IF response.status # 200 \/ response.data = <<>>
    THEN [next |-> "return", all_products |-> acc, page |-> pg]
    ELSE IF Len(response.data) < page_size
    THEN [next |-> "return", all_products |-> acc \o response.data, page |-> pg]
    ELSE IF loop_condition(acc \o response.data, max_items)
    THEN [next |-> "loop", all_products |-> acc \o response.data, page |-> pg + 1]
    ELSE [next |-> "return", all_products |-> acc \o response.data, page |-> pg + 1]

\* One pass through the loop of fetch_products, from the response to the
\* loop condition: raise, leave the loop, or go round again.
fetch_products_iteration(acc, pg, max_items, page_size, response) ==
    IF response.status # 200
    THEN [next |-> "raise", all_products |-> acc, page |-> pg]
    ELSE IF response.data = <<>>
    THEN [next |-> "return", all_products |-> acc, page |-> pg]
    ELSE IF Len(response.data) < page_size
    THEN [next |-> "return", all_products |-> acc \o response.data, page |-> pg]
    ELSE IF loop_condition(acc \o response.data, max_items)
    THEN [next |-> "loop", all_products |-> acc \o response.data, page |-> pg + 1]
    ELSE [next |-> "return", all_products |-> acc \o response.data, page |-> pg + 1]

\* The entries data[lo..hi] assign, a later brand overriding an earlier one
\* with the same id.
RECURSIVE brand_entries(_, _, _)
brand_entries(data, lo, hi) ==
    IF lo > hi THEN NoBrands
    ELSE IF lo = hi
    THEN Get(data[lo], "id", None) :> Get(data[lo], "name", PyStr(""))
    ELSE LET mid == (lo + hi) \div 2
         IN  brand_entries(data, mid + 1, hi) @@ brand_entries(data, lo, mid)

\* for brand in data: brand_map[brand.get("id")] = brand.get("name", "")
brand_map_update(bm, data) == brand_entries(data, 1, Len(data)) @@ bm

\* The page size fetch_brand_map asks for and compares with.
BrandPageSize == 250

\* One pass through the loop of fetch_brand_map.
fetch_brand_map_iteration(bm, pg, response) ==
    IF response.status # 200
    THEN [next |-> "raise", brand_map |-> bm, page |-> pg]
    ELSE IF response.data = <<>>
    THEN [next |-> "return", brand_map |-> bm, page |-> pg]
    ELSE IF Len(response.data) < BrandPageSize
    THEN [next |-> "return", brand_map |-> brand_map_update(bm, response.data),
          page |-> pg]
    ELSE [next |-> "loop", brand_map |-> brand_map_update(bm, response.data),
          page |-> pg + 1]

\* The locals of the call under way, as one step leaves them.
Locals(at, cfg, acc, pg, prods, bm, out) ==
    [pc |-> at, config |-> cfg, all_products |-> acc, page |-> pg,
     handler_products |-> prods, brand_map |-> bm, outcome |-> out]

NoOutcome == [kind |-> "none", message |-> "", value |-> <<>>]
Returned(value) == [kind |-> "return", message |-> "", value |-> value]
Raised(message) == [kind |-> "raise", message |-> message, value |-> <<>>]
Redirected == [kind |-> "redirect", message |-> "index", value |-> <<>>]
LoggedOut == [kind |-> "json", message |-> "logged_out", value |-> <<>>]

\* render_template("export.html", csv_content=...) for export,
\* Response(csv_content, mimetype="text/csv") for download
Rendered(op, rows) ==
    [kind |-> IF op = "export" THEN "export.html" ELSE "products.csv",
     message |-> "", value |-> rows]

\* The end of export and download: build_csv_rows, then the response.
brands_returned(c, cfg, prods, bm) ==
    IF c.op = "fetch_brand_map"
    THEN Locals("returned", cfg, <<>>, 1, <<>>, NoBrands, Returned(bm))
    ELSE LET csv_content == build_csv_rows(prods, c.fields, bm, c.custom_domain)
         IN  Locals("returned", cfg, <<>>, 1, <<>>, NoBrands,
                    IF csv_content.ok
                    THEN Rendered(c.op, csv_content.rows)
                    ELSE Raised("build_csv_rows"))

\* fetch_brand_map up to its loop.
start_fetch_brand_map(c, prods) ==
    LET cfg == get_bigcommerce_config(c.config_override)
        missing == missing_keys(cfg)
    IN  IF missing # <<>>
        THEN Locals("returned", cfg, <<>>, 1, <<>>, NoBrands,
                    Raised(missing_message(missing)))
        ELSE Locals("fetch_brand_map", cfg, <<>>, 1, prods, NoBrands, NoOutcome)

\* fetch_products has returned: to its caller, or on into filter_products and
\* fetch_brand_map in export and download.
products_returned(c, cfg, result) ==
    IF c.op = "fetch_products"
    THEN Locals("returned", cfg, <<>>, 1, <<>>, NoBrands, Returned(result))
    ELSE start_fetch_brand_map(
             c, filter_products(result, c.include_unavailable, c.include_hidden))

\* fetch_products up to its first request.
start_fetch_products(c) ==
    LET cfg == get_bigcommerce_config(c.config_override)
        missing == missing_keys(cfg)
    IN  IF missing # <<>>
        THEN Locals("returned", cfg, <<>>, 1, <<>>, NoBrands,
                    Raised(missing_message(missing)))
        ELSE IF loop_condition(<<>>, c.max_items)
        THEN Locals("fetch_products", cfg, <<>>, 1, <<>>, NoBrands, NoOutcome)
        ELSE products_returned(c, cfg, Slice(<<>>, c.max_items))

\* str.strip() on strings whose whitespace is spaces
RECURSIVE lstrip(_, _)
lstrip(x, c) ==
    IF Len(x) > 0 /\ SubSeq(x, 1, 1) = c
    THEN lstrip(SubSeq(x, 2, Len(x)), c)
    ELSE x

strip(x) == lstrip(rstrip(x, " "), " ")

\* x.split(sep), sep one character
RECURSIVE split_from(_, _, _, _, _)
split_from(x, sep, i, part, parts) ==
    IF i > Len(x) THEN Append(parts, part)
    ELSE IF SubSeq(x, i, i) = sep
    THEN split_from(x, sep, i + 1, "", Append(parts, part))
    ELSE split_from(x, sep, i + 1, part \o SubSeq(x, i, i), parts)

split(x, sep) == split_from(x, sep, 1, "", <<>>)

\* [field for field in raw.split(",") if field]
field_list(raw) == SelectSeq(split(raw, ","), LAMBDA f : f # "")

\* creds_override as export and download build it from the stripped values
creds_from(stripped) == [k \in {j \in Keys : stripped[j] # ""} |-> stripped[k]]

\* session.get("bc_credentials"), {} standing for None
session_get(sess) ==
    IF "bc_credentials" \in DOMAIN sess THEN sess["bc_credentials"] ELSE NoOverride

NoSession == [k \in {} |-> NoOverride]

\* The defaults of fetch_products, which export and download rely on.
DefaultMaxItems == 2000
DefaultPageSize == 250

\* The arguments of a call: the fetcher's own, and for a request the values the
\* handler read from it and the session as the request found it.
Call(op, max_items, page_size, variants, override, stripped, session0, names, unavailable, hidden, domain) ==
    [op |-> op, max_items |-> max_items, page_size |-> page_size,
     include_variants |-> variants, config_override |-> override,
     form |-> stripped, session0 |-> session0, fields |-> names,
     include_unavailable |-> unavailable, include_hidden |-> hidden,
     custom_domain |-> domain]

DirectCall(op, max_items, page_size, include_variants, config_override) ==
    Call(op, max_items, page_size, include_variants, config_override,
         NoCreds, session, <<>>, FALSE, FALSE, "")

-----------------------------------------------------------------------------
(* The fetchers called directly with small limits, and the export,         *)
(* download and logout requests of one client, against an upstream that    *)
(* answers each request with a page or with an error.                      *)

MaxItems == 3
MaxPageSize == 2
MaxPageRecords == 3
MaxBrandPages == 2

EnvValues == {"", "e"}

\* What a request carries for a credential: nothing, or a padded value.
FormValues == {"", " a "}

\* Credential overrides a caller of the fetchers passes.
DirectOverrides ==
    {NoOverride} \cup [Keys -> {"", "a"}] \cup {[k \in {"store_hash"} |-> "a"]}

FieldQueries == {"", ",", "name,,brand_name"}
DomainValues == {" https://shop.example.com/ "}

\* The records of the upstream catalog, by position.
CatalogRecord(k) ==
    CASE k % 4 = 1 -> FullProduct
      [] k % 4 = 2 -> HiddenProduct
      [] k % 4 = 3 -> DisabledProduct
      [] OTHER -> None

BrandRecord(k) ==
    PyDict([id |-> PyInt(ToString(k)), name |-> PyStr("Brand " \o ToString(k))])

UpstreamErrors == {401, 500}

ErrorText(status) == IF status = 401 THEN "Unauthorized" ELSE "Internal Server Error"

ErrorResponses ==
    {[status |-> s, text |-> ErrorText(s), data |-> <<>>] : s \in UpstreamErrors}

\* The lengths of a 200 answer to a products request: no record, one, and
\* the lengths around the limit asked for, up to MaxPageRecords.
PageLengths(page_size) ==
    {0, 1, page_size - 1, page_size, page_size + 1} \cap 0..MaxPageRecords

ProductResponses(pg, page_size) ==
    {[status |-> 200, text |-> "",
      data |-> [i \in 1..n |-> CatalogRecord((pg - 1) * page_size + i)]] :
        n \in PageLengths(page_size)}
        \cup ErrorResponses

\* A 200 answer to a brands request: no brand, one, or a full page while the
\* upstream has pages left.
BrandPages ==
    [pg \in 1..MaxBrandPages |->
        {[status |-> 200, text |-> "",
          data |-> [i \in 1..n |-> BrandRecord((pg - 1) * BrandPageSize + i)]] :
            n \in {0, 1} \cup (IF pg < MaxBrandPages THEN {BrandPageSize} ELSE {})}]

BrandResponses(pg) == BrandPages[pg] \cup ErrorResponses

Init ==
    /\ FilterIdle
    /\ CsvIdle
    /\ CredIdle
    /\ env \in [Keys -> EnvValues]
    /\ session = NoSession
    /\ pc = "idle"
    /\ call = NoArgs
    /\ config = NoArgs
    /\ all_products = <<>>
    /\ page = 1
    /\ handler_products = <<>>
    /\ brand_map = NoBrands
    /\ http = <<>>
    /\ outcome = NoOutcome

\* The step leaves the locals as n says. An exception that leaves export
\* unhandled reaches the client with the session as export set it, or, under
\* the debugger app.run(debug=True) installs, without the session cookie.
Leave(c, n, sess) ==
    /\ pc' = n.pc
    /\ config' = n.config
    /\ all_products' = n.all_products
    /\ page' = n.page
    /\ handler_products' = n.handler_products
    /\ brand_map' = n.brand_map
    /\ outcome' = n.outcome
    /\ session' \in IF n.outcome.kind = "raise" /\ c.op = "export"
                    THEN {sess, c.session0}
                    ELSE {sess}

otherVars == <<filterVars, csvVars, credVars>>

\* fetch_products(max_items, page_size, include_variants, config_override)
FetchProductsCall ==
    /\ pc = "idle"
    /\ \E max_items \in 0..MaxItems, page_size \in 1..MaxPageSize,
          include_variants \in BOOLEAN, config_override \in DirectOverrides :
          LET c == DirectCall("fetch_products", max_items, page_size,
                              include_variants, config_override)
          IN  /\ call' = c
              /\ http' = <<>>
              /\ Leave(c, start_fetch_products(c), session)
    /\ UNCHANGED <<env, otherVars>>

\* fetch_brand_map(config_override)
FetchBrandMapCall ==
    /\ pc = "idle"
    /\ \E config_override \in DirectOverrides :
          LET c == DirectCall("fetch_brand_map", DefaultMaxItems, DefaultPageSize,
                              FALSE, config_override)
          IN  /\ call' = c
              /\ http' = <<>>
              /\ Leave(c, start_fetch_brand_map(c, <<>>), session)
    /\ UNCHANGED <<env, otherVars>>

\* POST /export
Export ==
    /\ pc = "idle"
    /\ \E ordered_fields_raw \in FieldQueries,
          include_variants \in {"", "on"}, include_unavailable \in {"", "on"},
          include_hidden \in {"", "on"}, custom_domain \in DomainValues,
          raw \in [Keys -> FormValues] :
          LET stripped == [k \in Keys |-> strip(raw[k])]
              field_names == field_list(ordered_fields_raw)
              built == creds_from(stripped)
              creds_override ==
                  IF built # NoOverride THEN built
                  ELSE IF session_get(session) # NoOverride
                  THEN session["bc_credentials"]
                  ELSE built
              stored ==
                  IF built # NoOverride
                  THEN [k \in DOMAIN session \cup {"bc_credentials"} |-> built]
                  ELSE session
              c == Call("export", DefaultMaxItems, DefaultPageSize,
                        include_variants = "on", creds_override, stripped,
                        session, field_names, include_unavailable = "on",
                        include_hidden = "on", strip(custom_domain))
          IN  /\ call' = c
              /\ http' = <<>>
              /\ IF field_names = <<>>
                 THEN Leave(c, Locals("returned", NoArgs, <<>>, 1, <<>>, NoBrands,
                                      Redirected), session)
                 ELSE Leave(c, start_fetch_products(c), stored)
    /\ UNCHANGED <<env, otherVars>>

\* GET /download
Download ==
    /\ pc = "idle"
    /\ \E field_query \in FieldQueries,
          include_variants \in {"0", "1"}, include_unavailable \in {"0", "1"},
          include_hidden \in {"0", "1"}, custom_domain \in DomainValues,
          raw \in [Keys -> FormValues] :
          LET stripped == [k \in Keys |-> strip(raw[k])]
              field_names == field_list(field_query)
              built == creds_from(stripped)
              creds_override ==
                  IF built = NoOverride /\ session_get(session) # NoOverride
                  THEN session["bc_credentials"]
                  ELSE built
              c == Call("download", DefaultMaxItems, DefaultPageSize,
                        include_variants = "1", creds_override, stripped,
                        session, field_names, include_unavailable = "1",
                        include_hidden = "1", strip(custom_domain))
          IN  /\ call' = c
              /\ http' = <<>>
              /\ IF field_names = <<>>
                 THEN Leave(c, Locals("returned", NoArgs, <<>>, 1, <<>>, NoBrands,
                                      Redirected), session)
                 ELSE Leave(c, start_fetch_products(c), session)
    /\ UNCHANGED <<env, otherVars>>

\* POST /logout
Logout ==
    /\ pc = "idle"
    /\ LET c == DirectCall("logout", DefaultMaxItems, DefaultPageSize, FALSE,
                           NoOverride)
       IN  /\ call' = c
           /\ http' = <<>>
           /\ Leave(c, Locals("returned", NoArgs, <<>>, 1, <<>>, NoBrands, LoggedOut),
                    [k \in DOMAIN session \ {"bc_credentials"} |-> session[k]])
    /\ UNCHANGED <<env, otherVars>>

\* One request of fetch_products and what the loop does with the answer.
ProductsPage ==
    /\ pc = "fetch_products"
    /\ \E response \in ProductResponses(page, call.page_size) :
          LET it == fetch_products_iteration(all_products, page, call.max_items,
                                             call.page_size, response)
          IN  /\ http' = Append(http, Request("products", config, call.page_size,
                                              page,
                                              include_params(call.include_variants),
                                              response))
              /\ Leave(call,
                       CASE it.next = "raise" ->
                                Locals("returned", config, <<>>, 1, <<>>, NoBrands,
                                       Raised(products_error_message(response)))
                         [] it.next = "loop" ->
                                Locals("fetch_products", config, it.all_products,
                                       it.page, <<>>, NoBrands, NoOutcome)
                         [] OTHER ->
                                products_returned(call, config,
                                                  Slice(it.all_products,
                                                        call.max_items)),
                       session)
    /\ UNCHANGED <<env, call, otherVars>>

\* One request of fetch_brand_map and what the loop does with the answer.
BrandsPage ==
    /\ pc = "fetch_brand_map"
    /\ \E response \in BrandResponses(page) :
          LET it == fetch_brand_map_iteration(brand_map, page, response)
          IN  /\ http' = Append(http, Request("brands", config, BrandPageSize, page,
                                              "", response))
              /\ Leave(call,
                       CASE it.next = "raise" ->
                                Locals("returned", config, <<>>, 1, <<>>, NoBrands,
                                       Raised(brands_error_message(response)))
                         [] it.next = "loop" ->
                                Locals("fetch_brand_map", config, <<>>, it.page,
                                       handler_products, it.brand_map, NoOutcome)
                         [] OTHER ->
                                brands_returned(call, config, handler_products,
                                                it.brand_map),
                       session)
    /\ UNCHANGED <<env, call, otherVars>>

\* The call is over: its result is with the caller and its locals are gone.
Respond ==
    /\ pc = "returned"
    /\ pc' = "idle"
    /\ call' = NoArgs
    /\ config' = NoArgs
    /\ all_products' = <<>>
    /\ page' = 1
    /\ handler_products' = <<>>
    /\ brand_map' = NoBrands
    /\ http' = <<>>
    /\ outcome' = NoOutcome
    /\ UNCHANGED <<env, session, otherVars>>

Next ==
    \/ FetchProductsCall
    \/ FetchBrandMapCall
    \/ Export
    \/ Download
    \/ Logout
    \/ ProductsPage
    \/ BrandsPage
    \/ Respond

Spec == Init /\ [][Next]_vars

-----------------------------------------------------------------------------
(* Properties of the fetchers and of export and download *)

\* The requests this call sent to one of the two endpoints, in order.
RequestsTo(api) == SelectSeq(http, LAMBDA r : r.api = api)

\* The records the first n of these requests returned.
RECURSIVE RunningTotal(_, _)
RunningTotal(requests, n) ==
    IF n = 0 THEN 0 ELSE RunningTotal(requests, n - 1) + requests[n].count

IsRequest == pc # "idle" /\ call.op \in {"export", "download"}
RunsFetchProducts ==
    \/ pc # "idle" /\ call.op = "fetch_products"
    \/ IsRequest /\ call.fields # <<>>
RunsFetchBrandMap ==
    \/ pc # "idle" /\ call.op = "fetch_brand_map"
    \/ IsRequest /\ call.fields # <<>>

\* fetch_products has handed its list to its caller.
FetchProductsReturned ==
    \/ pc = "returned" /\ call.op = "fetch_products" /\ outcome.kind = "return"
    \/ /\ IsRequest
       /\ \/ pc = "fetch_brand_map"
          \/ RequestsTo("brands") # <<>>
          \/ outcome.kind \in {"export.html", "products.csv"}

\* C1: for every max_items >= 0 and page_size >= 1, while the upstream answers
\* 200, fetch_products asks for a further page only after a page of at least
\* page_size records that left the running total below max_items, it has
\* returned only when the last page was shorter than page_size (or empty) or
\* the total reached max_items (with no request at all when max_items is 0),
\* and the list it returns holds the first min(total, max_items) records.
C1_PaginationStopsAndTruncates ==
    RunsFetchProducts =>
        LET sent == RequestsTo("products")
            total(n) == RunningTotal(sent, n)
            goes_on(n) == /\ sent[n].status = 200
                          /\ sent[n].count >= call.page_size
                          /\ total(n) < call.max_items
        IN  /\ sent # <<>> => 0 < call.max_items
            /\ \A n \in 1..(Len(sent) - 1) : goes_on(n)
            /\ pc = "fetch_products" => sent = <<>> \/ goes_on(Len(sent))
            /\ FetchProductsReturned =>
                  /\ sent = <<>> => call.max_items = 0
                  /\ sent # <<>> => ~goes_on(Len(sent))
            /\ pc = "returned" /\ call.op = "fetch_products"
                    /\ outcome.kind = "return" =>
                  /\ Len(outcome.value) <= call.max_items
                  /\ Len(outcome.value) =
                        IF total(Len(sent)) < call.max_items
                        THEN total(Len(sent)) ELSE call.max_items

\* fetch_products(3, 2) got two full pages: it stopped at a total of four and
\* returned three records.
C1_Witness ==
    /\ pc = "returned"
    /\ call.op = "fetch_products"
    /\ call.max_items = 3
    /\ call.page_size = 2
    /\ Len(http) = 2
    /\ http[1].count = 2
    /\ http[2].count = 2
    /\ outcome.kind = "return"
    /\ Len(outcome.value) = 3

\* The value the claim gives a key in a request: the request's own when it is
\* not empty, else the session's when the session found by the request caches
\* one, else the environment's.
ClaimedCredential(k) ==
    IF call.form[k] # "" THEN call.form[k]
    ELSE IF k \in DOMAIN session_get(call.session0)
    THEN session_get(call.session0)[k]
    ELSE env[k]

\* C2: in export and download, every upstream request carries for each of
\* store_hash, client_id and access_token the request-supplied value when it is
\* not empty, otherwise the session-cached value when there is one, otherwise
\* the environment default, whatever requests came before.
C2_RequestThenSessionThenEnvironment ==
    IsRequest =>
        \A i \in 1..Len(http) : \A k \in Keys : http[i][k] = ClaimedCredential(k)

\* The effective configuration of the call: the environment defaults merged
\* with the non-empty overrides it passes.
EffectiveConfiguration ==
    [k \in Keys |->
        IF k \in DOMAIN call.config_override /\ call.config_override[k] # ""
        THEN call.config_override[k]
        ELSE env[k]]

MissingNames == SelectSeq(KeyOrder, LAMBDA k : EffectiveConfiguration[k] = "")

ConfigurationError ==
    Raised("Missing BigCommerce configuration: " \o join(", ", MissingNames)
               \o ". Set BIGCOMMERCE_STORE_HASH, BIGCOMMERCE_CLIENT_ID, and "
               \o "BIGCOMMERCE_ACCESS_TOKEN.")

\* C3: when a key of the effective configuration is empty, fetch_products and
\* fetch_brand_map, called directly or by export and download, raise the
\* configuration error that names exactly the empty keys, and no request has
\* been sent upstream; with no key empty they raise no such error.
C3_ConfigurationErrorBeforeAnyRequest ==
    RunsFetchProducts \/ RunsFetchBrandMap =>
        /\ MissingNames # <<>> =>
              /\ pc = "returned"
              /\ outcome = ConfigurationError
              /\ http = <<>>
        /\ MissingNames = <<>> /\ outcome.kind = "raise" => http # <<>>

\* An export whose request gives the store only, with nothing in the session
\* or the environment: the error names the other two keys.
C3_Witness ==
    /\ pc = "returned"
    /\ call.op = "export"
    /\ call.fields # <<>>
    /\ MissingNames = <<"client_id", "access_token">>
    /\ outcome = ConfigurationError
    /\ http = <<>>

UpstreamError(r) ==
    Raised((IF r.api = "products" THEN "BigCommerce API error ("
            ELSE "BigCommerce brand API error (")
               \o ToString(r.status) \o "): " \o r.text)

\* C4: a request of fetch_products or fetch_brand_map that is answered with a
\* status other than 200, on whichever page, is the last request of the call:
\* the call has raised the error that carries that status and the response
\* body, with no record, brand or CSV in its result; and no page of an
\* endpoint is asked for twice in a call.
C4_UpstreamErrorFailsTheOperation ==
    pc # "idle" =>
        /\ \A i \in 1..Len(http) :
              http[i].status # 200 =>
                  /\ i = Len(http)
                  /\ pc = "returned"
                  /\ outcome = UpstreamError(http[i])
                  /\ outcome.value = <<>>
        /\ \A i, j \in 1..Len(http) :
              i # j => <<http[i].api, http[i].page>> # <<http[j].api, http[j].page>>

\* An export whose second brands request is answered 500, after a products
\* page with a record and a full page of brands: no CSV.
C4_Witness ==
    /\ pc = "returned"
    /\ call.op = "export"
    /\ Len(http) = 3
    /\ http[1].api = "products"
    /\ http[1].count = 1
    /\ http[2].api = "brands"
    /\ http[2].count = BrandPageSize
    /\ http[3].api = "brands"
    /\ http[3].page = 2
    /\ http[3].status = 500
    /\ outcome = UpstreamError(http[3])

====
